---- MODULE Spec2Model ----
(***************************************************************************)
(* Model of the resume parser Lambda, src/handlers/parser/app.py.          *)
(*                                                                         *)
(* A text is a sequence of characters, each character a one-character      *)
(* string; the bullet U+2022 is written "U+2022".  Every regular           *)
(* expression of the source is translated to an operator that computes     *)
(* what Python's re computes for it (leftmost match, greedy and lazy       *)
(* quantifiers, non-overlapping findall/sub scans), over 1-based           *)
(* positions.                                                              *)
(***************************************************************************)
EXTENDS Naturals, Sequences, FiniteSets

VARIABLES text, pc, name, contact_info, skills, experience, education,
          projects, certifications, nerCalls, error, response, once, twice

vars == <<text, pc, name, contact_info, skills, experience, education,
          projects, certifications, nerCalls, error, response, once, twice>>

(***************************************************************************)
(* Python values: None, and a present value.  Unset is a local variable    *)
(* that has not been assigned yet.                                         *)
(***************************************************************************)
None == [tag |-> "None"]
Some(v) == [tag |-> "Some", val |-> v]
Unset == [tag |-> "Unset"]

(***************************************************************************)
(* Character classes of Python's re on str patterns.                       *)
(***************************************************************************)
UpperChars == <<"A", "B", "C", "D", "E", "F", "G", "H", "I", "J", "K", "L", "M",
                "N", "O", "P", "Q", "R", "S", "T", "U", "V", "W", "X", "Y", "Z">>
LowerChars == <<"a", "b", "c", "d", "e", "f", "g", "h", "i", "j", "k", "l", "m",
                "n", "o", "p", "q", "r", "s", "t", "u", "v", "w", "x", "y", "z">>
UpperSet == {UpperChars[i] : i \in DOMAIN UpperChars}
LowerSet == {LowerChars[i] : i \in DOMAIN LowerChars}
DigitSet == {"0", "1", "2", "3", "4", "5", "6", "7", "8", "9"}

\* \s
IsSpace(c) == c \in {" ", "\n", "\r", "\t"}
\* \d
IsDigit(c) == c \in DigitSet
\* [A-Z] under re.IGNORECASE
IsAlpha(c) == c \in UpperSet \cup LowerSet
\* \w
IsWord(c) == IsAlpha(c) \/ IsDigit(c) \/ c = "_"
\* [-U+2022*]
IsBullet(c) == c \in {"-", "U+2022", "*"}

\* case folding of re.IGNORECASE
LowerOf ==
  [c \in UpperSet |-> LowerChars[CHOOSE i \in DOMAIN UpperChars : UpperChars[i] = c]]
Lower(c) == IF c \in UpperSet THEN LowerOf[c] ELSE c

Min(S) == CHOOSE x \in S : \A y \in S : x <= y
Max(S) == CHOOSE x \in S : \A y \in S : x >= y

\* t[a..b-1], the Python slice of the 1-based positions a (included) to b (excluded)
Slice(t, a, b) == SubSeq(t, a, b - 1)

\* the first position at or after i that holds no whitespace (Len(t)+1 at the end):
\* where a greedy \s* started at i stops
RECURSIVE SpaceRunEnd(_, _)
SpaceRunEnd(t, i) ==
  IF i <= Len(t) /\ IsSpace(t[i]) THEN SpaceRunEnd(t, i + 1) ELSE i

(***************************************************************************)
(* remove_bullets                                                          *)
(***************************************************************************)
\* \s*[-U+2022*]\s+ tried at position i: the position after the match, 0 if none
BulletMatchEnd(t, i) ==
  LET j == SpaceRunEnd(t, i)
  IN  IF j + 1 <= Len(t) /\ IsBullet(t[j]) /\ IsSpace(t[j + 1])
        THEN SpaceRunEnd(t, j + 1)
        ELSE 0

\* ^ under re.MULTILINE
AtLineStart(t, i) == i = 1 \/ t[i - 1] = "\n"

\* re.sub(r'^\s*[-U+2022*]\s+', '', text, flags=re.MULTILINE), scanning from i:
\* the text up to the next match is kept, the match dropped, and the scan goes
\* on after the match
RECURSIVE SubLineBullets(_, _)
SubLineBullets(t, i) ==
  LET hits == {j \in i..Len(t) : AtLineStart(t, j) /\ BulletMatchEnd(t, j) # 0}
  IN  IF hits = {} THEN Slice(t, i, Len(t) + 1)
      ELSE Slice(t, i, Min(hits)) \o SubLineBullets(t, BulletMatchEnd(t, Min(hits)))

\* re.sub(r'\n\s*[-U+2022*]\s+', '\n', text), scanning from i
RECURSIVE SubNewlineBullets(_, _)
SubNewlineBullets(t, i) ==
  LET hits == {j \in i..Len(t) : t[j] = "\n" /\ BulletMatchEnd(t, j + 1) # 0}
  IN  IF hits = {} THEN Slice(t, i, Len(t) + 1)
      ELSE Slice(t, i, Min(hits)) \o <<"\n">>
             \o SubNewlineBullets(t, BulletMatchEnd(t, Min(hits) + 1))

remove_bullets(t) == SubNewlineBullets(SubLineBullets(t, 1), 1)

(***************************************************************************)
(* Pieces shared by the section patterns (all compiled with re.IGNORECASE  *)
(* and, where they use ".", re.DOTALL).                                    *)
(***************************************************************************)
\* the literal lit matches at position i, letters compared case-insensitively
MatchLit(t, i, lit) ==
  /\ i + Len(lit) - 1 <= Len(t)
  /\ \A k \in 1..Len(lit) : Lower(t[i + k - 1]) = Lower(lit[k])

\* an alternation (a|b|...) of literals tried in order at position i:
\* the position after the first alternative that matches, 0 if none does
AltEnd(t, i, alts) ==
  LET hits == {a \in DOMAIN alts : MatchLit(t, i, alts[a])}
  IN  IF hits = {} THEN 0 ELSE i + Len(alts[Min(hits)])

\* $ without re.MULTILINE: the end of the text, or just before a final newline
AtDollar(t, i) == i = Len(t) + 1 \/ (i = Len(t) /\ t[i] = "\n")

\* \Z: the end of the text
AtEnd(t, i) == i = Len(t) + 1

\* \b
WordBoundary(t, i) ==
  (i <= Len(t) /\ IsWord(t[i])) # (i > 1 /\ IsWord(t[i - 1]))

\* str.strip()
RECURSIVE RStripEnd(_, _)
RStripEnd(t, j) == IF j >= 1 /\ IsSpace(t[j]) THEN RStripEnd(t, j - 1) ELSE j
strip(t) ==
  LET a == SpaceRunEnd(t, 1)
  IN  IF a > Len(t) THEN <<>> ELSE SubSeq(t, a, RStripEnd(t, Len(t)))

\* str.splitlines(): lines end at \n, \r or \r\n; no empty last line
RECURSIVE SplitLinesFrom(_, _)
SplitLinesFrom(t, i) ==
  LET breaks == {j \in i..Len(t) : t[j] \in {"\n", "\r"}}
  IN  IF i > Len(t) THEN <<>>
      ELSE IF breaks = {} THEN <<Slice(t, i, Len(t) + 1)>>
      ELSE LET j == Min(breaks)
               crlf == t[j] = "\r" /\ j < Len(t) /\ t[j + 1] = "\n"
           IN  <<Slice(t, i, j)>> \o SplitLinesFrom(t, IF crlf THEN j + 2 ELSE j + 1)
splitlines(t) == SplitLinesFrom(t, 1)

\* sep.join(parts)
RECURSIVE join(_, _)
join(sep, parts) ==
  IF parts = <<>> THEN <<>>
  ELSE IF Len(parts) = 1 THEN parts[1]
  ELSE parts[1] \o sep \o join(sep, Tail(parts))

(***************************************************************************)
(* extract_skills                                                          *)
(***************************************************************************)
SkillsHeaders ==
  <<<<"T", "E", "C", "H", "N", "I", "C", "A", "L", " ", "S", "K", "I", "L", "L", "S">>,
    <<"S", "K", "I", "L", "L", "S">>>>
SkillsStops ==
  <<<<"P", "R", "O", "J", "E", "C", "T", "S">>,
    <<"C", "E", "R", "T", "I", "F", "I", "C", "A", "T", "I", "O", "N", "S">>,
    <<"E", "D", "U", "C", "A", "T", "I", "O", "N">>,
    <<"C", "E", "R", "T", "I", "F", "I", "C", "A", "T", "E", "S">>,
    <<"A", "C", "H", "I", "E", "V", "E", "M", "E", "N", "T", "S">>>>

\* a variant whose lookahead lacks the PROJECTS alternative
SkillsStopAtWithoutProjects(t, j) ==
  AltEnd(t, j, Tail(SkillsStops)) # 0 \/ AtDollar(t, j)

\* (?=PROJECTS|CERTIFICATIONS|EDUCATION|CERTIFICATES|ACHIEVEMENTS|$) at position j
SkillsStopAt(t, j) == AltEnd(t, j, SkillsStops) # 0 \/ AtDollar(t, j)

\* skills_section_pattern.search(text): None, or the spans of group 1 (from, to)
\* and of group 2 (to, stop); the lazy (.*?) ends at the first stop
SkillsSearch(t) ==
  LET starts == {i \in 1..Len(t) : AltEnd(t, i, SkillsHeaders) # 0}
  IN  IF starts = {} THEN None
      ELSE LET i == Min(starts)
               h == AltEnd(t, i, SkillsHeaders)
               j == Min({q \in h..(Len(t) + 1) : SkillsStopAt(t, q)})
           IN  Some([header |-> <<i, h>>, body |-> <<h, j>>])

\* re.split(r'[,\nU+2022;]', s)
IsSkillSep(c) == c \in {",", "\n", "U+2022", ";"}
RECURSIVE SplitSkills(_, _)
SplitSkills(t, i) ==
  LET seps == {j \in i..Len(t) : IsSkillSep(t[j])}
  IN  IF seps = {} THEN <<Slice(t, i, Len(t) + 1)>>
      ELSE <<Slice(t, i, Min(seps))>> \o SplitSkills(t, Min(seps) + 1)

\* \d{n} at position i
DigitsAt(t, i, n) == i + n - 1 <= Len(t) /\ \A k \in 0..(n - 1) : IsDigit(t[i + k])
CharAt(t, i, c) == i <= Len(t) /\ t[i] = c

\* re.search(r'\b(?:\d{4}|\d{1,2}/\d{1,2}/\d{2,4})\b', s) finds something
LooksLikeDate(s) ==
  \E i \in 1..Len(s) :
    /\ WordBoundary(s, i)
    /\ \/ DigitsAt(s, i, 4) /\ WordBoundary(s, i + 4)
       \/ \E a \in 1..2, b \in 1..2, c \in 2..4 :
            /\ DigitsAt(s, i, a) /\ CharAt(s, i + a, "/")
            /\ DigitsAt(s, i + a + 1, b) /\ CharAt(s, i + a + 1 + b, "/")
            /\ DigitsAt(s, i + a + b + 2, c)
            /\ WordBoundary(s, i + a + b + 2 + c)

\* [skill.strip() for skill in skills if skill.strip() and not re.search(...)]
RECURSIVE KeepSkills(_)
KeepSkills(parts) ==
  IF parts = <<>> THEN <<>>
  ELSE LET s == strip(parts[1])
       IN  (IF s # <<>> /\ ~LooksLikeDate(s) THEN <<s>> ELSE <<>>)
             \o KeepSkills(Tail(parts))

extract_skills(t) ==
  LET m == SkillsSearch(t)
  IN  IF m = None THEN None
      ELSE LET skills_text == remove_bullets(Slice(t, m.val.body[1], m.val.body[2]))
           IN  Some(KeepSkills(SplitSkills(skills_text, 1)))

(***************************************************************************)
(* extract_experience                                                      *)
(***************************************************************************)
ExperienceHeaders ==
  <<<<"E", "X", "P", "E", "R", "I", "E", "N", "C", "E">>,
    <<"E", "M", "P", "L", "O", "Y", "M", "E", "N", "T", " ", "H", "I", "S", "T", "O", "R", "Y">>,
    <<"W", "O", "R", "K", " ", "H", "I", "S", "T", "O", "R", "Y">>,
    <<"P", "R", "O", "F", "E", "S", "S", "I", "O", "N", "A", "L", " ", "E", "X", "P", "E", "R", "I", "E", "N", "C", "E">>,
    <<"C", "A", "R", "E", "E", "R", " ", "S", "U", "M", "M", "A", "R", "Y">>>>

\* (?=\n[A-Z\s]+\n) at position j, under re.IGNORECASE: a newline, one or more
\* letters (of either case) or whitespace characters, a newline
UpperLineAhead(t, j) ==
  /\ j <= Len(t) /\ t[j] = "\n"
  /\ \E k \in (j + 2)..Len(t) :
       /\ t[k] = "\n"
       /\ \A m \in (j + 1)..(k - 1) : IsAlpha(t[m]) \/ IsSpace(t[m])

\* (?=\n[A-Z\s]+\n|\Z) at position j
ExperienceStopAt(t, j) == UpperLineAhead(t, j) \/ AtEnd(t, j)

\* experience_pattern tried at position i: None, or the spans of the header
\* (group 1), of the content (group 2) and the position after the match.
\* \s*[\n\r]+ backtracks to the last newline of the whitespace after the header.
ExperienceMatchAt(t, i) ==
  LET h == AltEnd(t, i, ExperienceHeaders)
      r == SpaceRunEnd(t, h)
      nls == {p \in h..(r - 1) : t[p] \in {"\n", "\r"}}
  IN  IF h = 0 \/ nls = {} THEN None
      ELSE LET c == Max(nls) + 1
               j == Min({q \in c..(Len(t) + 1) : ExperienceStopAt(t, q)})
           IN  Some([header |-> <<i, h>>, content |-> <<c, j>>, end |-> j])

\* experience_pattern.findall(text), scanning from i: the matches in order
RECURSIVE ExperienceFindall(_, _)
ExperienceFindall(t, i) ==
  LET starts == {j \in i..Len(t) : ExperienceMatchAt(t, j) # None}
  IN  IF starts = {} THEN <<>>
      ELSE LET m == ExperienceMatchAt(t, Min(starts)).val
           IN  <<m>> \o ExperienceFindall(t, m.end)

\* the loop over matches: content.strip(), kept when not empty, bullets removed
RECURSIVE ExperienceTexts(_, _)
ExperienceTexts(t, matches) ==
  IF matches = <<>> THEN <<>>
  ELSE LET content == strip(Slice(t, matches[1].content[1], matches[1].content[2]))
       IN  (IF content # <<>> THEN <<remove_bullets(content)>> ELSE <<>>)
             \o ExperienceTexts(t, Tail(matches))

extract_experience(t) ==
  LET matches == ExperienceFindall(t, 1)
      experience_texts == ExperienceTexts(t, matches)
  IN  IF matches = <<>> \/ experience_texts = <<>> THEN None
      ELSE Some(join(<<"\n", "\n">>, experience_texts))

(***************************************************************************)
(* extract_education                                                       *)
(***************************************************************************)
Degrees ==
  <<<<"B", ".", "S", "c">>,
    <<"B", ".", "E", "n", "g">>,
    <<"M", ".", "S", "c">>,
    <<"M", ".", "E", "n", "g">>,
    <<"B", "a", "c", "h", "e", "l", "o", "r">>,
    <<"M", "a", "s", "t", "e", "r">>,
    <<"P", "h", ".", "D">>,
    <<"D", "o", "c", "t", "o", "r", "a", "t", "e">>,
    <<"D", "i", "p", "l", "o", "m", "a">>>>
Fields ==
  <<<<"C", "o", "m", "p", "u", "t", "e", "r", " ", "S", "c", "i", "e", "n", "c", "e">>,
    <<"E", "n", "g", "i", "n", "e", "e", "r", "i", "n", "g">>,
    <<"D", "a", "t", "a", " ", "S", "c", "i", "e", "n", "c", "e">>,
    <<"I", "n", "f", "o", "r", "m", "a", "t", "i", "o", "n", " ", "T", "e", "c", "h", "n", "o", "l", "o", "g", "y">>,
    <<"B", "u", "s", "i", "n", "e", "s", "s">>,
    <<"M", "a", "t", "h", "e", "m", "a", "t", "i", "c", "s">>>>

\* education_pattern tried at position i: None, or the spans of the degree
\* (group 1) and of the field (group 2); the lazy .*? ends at the first field
EducationMatchAt(t, i) ==
  LET d == AltEnd(t, i, Degrees)
      fs == {q \in d..Len(t) : AltEnd(t, q, Fields) # 0}
  IN  IF d = 0 \/ fs = {} THEN None
      ELSE LET q == Min(fs)
           IN  Some([degree |-> <<i, d>>, field |-> <<q, AltEnd(t, q, Fields)>>])

\* education_pattern.findall(text), scanning from i: the matches in order
RECURSIVE EducationFindall(_, _)
EducationFindall(t, i) ==
  LET starts == {j \in i..Len(t) : EducationMatchAt(t, j) # None}
  IN  IF starts = {} THEN <<>>
      ELSE LET m == EducationMatchAt(t, Min(starts)).val
           IN  <<m>> \o EducationFindall(t, m.field[2])

\* a variant that takes the groups of each match in the wrong order
RECURSIVE EducationItemsFieldFirst(_, _)
EducationItemsFieldFirst(t, matches) ==
  IF matches = <<>> THEN <<>>
  ELSE <<remove_bullets(Slice(t, matches[1].field[1], matches[1].field[2])),
         remove_bullets(Slice(t, matches[1].degree[1], matches[1].degree[2]))>>
         \o EducationItemsFieldFirst(t, Tail(matches))

\* [remove_bullets(item) for sublist in education_text for item in sublist]
RECURSIVE EducationItems(_, _)
EducationItems(t, matches) ==
  IF matches = <<>> THEN <<>>
  ELSE <<remove_bullets(Slice(t, matches[1].degree[1], matches[1].degree[2])),
         remove_bullets(Slice(t, matches[1].field[1], matches[1].field[2]))>>
         \o EducationItems(t, Tail(matches))

\* a variant that answers None, as the other extractors do, when nothing matches
extract_education_or_none(t) ==
  LET items == EducationItems(t, EducationFindall(t, 1))
  IN  IF items = <<>> THEN None ELSE Some(items)

extract_education(t) == Some(EducationItems(t, EducationFindall(t, 1)))

(***************************************************************************)
(* extract_projects                                                        *)
(***************************************************************************)
ProjectsHeaders ==
  <<<<"R", "E", "L", "E", "V", "A", "N", "T", " ", "P", "R", "O", "J", "E", "C", "T", "S">>,
    <<"P", "R", "O", "J", "E", "C", "T", "S">>>>
ProjectsStops ==
  <<<<"E", "D", "U", "C", "A", "T", "I", "O", "N">>,
    <<"S", "K", "I", "L", "L", "S">>,
    <<"A", "C", "H", "I", "E", "V", "E", "M", "E", "N", "T", "S", " ", "&", " ", "C", "E", "R", "T", "I", "F", "I", "C", "A", "T", "I", "O", "N", "S">>,
    <<"C", "E", "R", "T", "I", "F", "I", "C", "A", "T", "I", "O", "N", "S">>>>

\* \n[A-Z]+\n at position j, under re.IGNORECASE
LetterLineAhead(t, j) ==
  /\ j <= Len(t) /\ t[j] = "\n"
  /\ \E k \in (j + 2)..Len(t) :
       t[k] = "\n" /\ \A m \in (j + 1)..(k - 1) : IsAlpha(t[m])

\* (?=(EDUCATION|SKILLS|ACHIEVEMENTS & CERTIFICATIONS|CERTIFICATIONS|$|\n[A-Z]+\n|\Z))
ProjectsStopAt(t, j) ==
  \/ AltEnd(t, j, ProjectsStops) # 0
  \/ AtDollar(t, j)
  \/ LetterLineAhead(t, j)
  \/ AtEnd(t, j)

\* projects_pattern.search(text)
ProjectsSearch(t) ==
  LET starts == {i \in 1..Len(t) : AltEnd(t, i, ProjectsHeaders) # 0}
  IN  IF starts = {} THEN None
      ELSE LET i == Min(starts)
               h == AltEnd(t, i, ProjectsHeaders)
               j == Min({q \in h..(Len(t) + 1) : ProjectsStopAt(t, q)})
           IN  Some([header |-> <<i, h>>, body |-> <<h, j>>])

extract_projects(t) ==
  LET m == ProjectsSearch(t)
  IN  IF m = None THEN None
      ELSE Some(strip(Slice(t, m.val.body[1], m.val.body[2])))

(***************************************************************************)
(* extract_certifications                                                  *)
(***************************************************************************)
CertificationsHeaders ==
  <<<<"c", "e", "r", "t", "i", "f", "i", "c", "a", "t", "i", "o", "n">>,
    <<"c", "o", "u", "r", "s", "e">>,
    <<"a", "c", "c", "r", "e", "d", "i", "t", "a", "t", "i", "o", "n">>,
    <<"c", "e", "r", "t", "i", "f", "i", "c", "a", "t", "e">>,
    <<"a", "c", "h", "i", "e", "v", "e", "m", "e", "n", "t">>>>
CertificationsStops ==
  <<<<"c", "e", "r", "t", "i", "f", "i", "c", "a", "t", "e", "s">>,
    <<"a", "c", "h", "i", "e", "v", "e", "m", "e", "n", "t", "s">>>>

\* (certifications?|courses?|...) at position i: the position after it (the
\* greedy s? takes an "s" that follows), 0 if no alternative matches
CertificationsHeaderEnd(t, i) ==
  LET h == AltEnd(t, i, CertificationsHeaders)
  IN  IF h = 0 THEN 0
      ELSE IF h <= Len(t) /\ Lower(t[h]) = "s" THEN h + 1 ELSE h

\* (certificates|achievements|$) at position j
CertificationsStopAt(t, j) == AltEnd(t, j, CertificationsStops) # 0 \/ AtDollar(t, j)

\* matches[0] of certifications_pattern.findall(text): None when the list is
\* empty, else the spans of groups 1 and 2 of the first match
CertificationsFirst(t) ==
  LET starts == {i \in 1..Len(t) : CertificationsHeaderEnd(t, i) # 0}
  IN  IF starts = {} THEN None
      ELSE LET i == Min(starts)
               h == CertificationsHeaderEnd(t, i)
               j == Min({q \in h..(Len(t) + 1) : CertificationsStopAt(t, q)})
           IN  Some([header |-> <<i, h>>, body |-> <<h, j>>])

\* [line.strip() for line in content.splitlines() if line.strip()]
RECURSIVE StrippedLines(_)
StrippedLines(lines) ==
  IF lines = <<>> THEN <<>>
  ELSE (IF strip(lines[1]) # <<>> THEN <<strip(lines[1])>> ELSE <<>>)
         \o StrippedLines(Tail(lines))

extract_certifications(t) ==
  LET m == CertificationsFirst(t)
  IN  IF m = None THEN None
      ELSE LET content == remove_bullets(strip(Slice(t, m.val.body[1], m.val.body[2])))
           IN  Some(join(<<"\n">>, StrippedLines(splitlines(content))))

(***************************************************************************)
(* extract_contact_info                                                    *)
(***************************************************************************)
\* the first position at or after i that holds whitespace (Len(t)+1 at the end):
\* where a greedy \S+ started at i stops
RECURSIVE NonSpaceRunEnd(_, _)
NonSpaceRunEnd(t, i) ==
  IF i <= Len(t) /\ ~IsSpace(t[i]) THEN NonSpaceRunEnd(t, i + 1) ELSE i

\* \b\S+@\S+\.\S+\b tried at position i: the position after the match, 0 if none.
\* Each \S+ is greedy and gives back characters only as far as needed: the "@"
\* is the last one that lets the rest match, then the "." likewise, then the
\* last word boundary of the run of non-whitespace.
EmailMatchEnd(t, i) ==
  LET e == NonSpaceRunEnd(t, i)
      ends(d) == {k \in (d + 2)..e : WordBoundary(t, k)}
      dots(a) == {d \in (a + 2)..(e - 1) : t[d] = "." /\ ends(d) # {}}
      ats == {a \in (i + 1)..(e - 1) : t[a] = "@" /\ dots(a) # {}}
  IN  IF WordBoundary(t, i) /\ ats # {}
        THEN Max(ends(Max(dots(Max(ats)))))
        ELSE 0

\* re.findall(r'\b\S+@\S+\.\S+\b', text), scanning from i: the spans (from, to)
\* of the matches in order
RECURSIVE EmailFindall(_, _)
EmailFindall(t, i) ==
  LET starts == {j \in i..Len(t) : EmailMatchEnd(t, j) # 0}
  IN  IF starts = {} THEN <<>>
      ELSE LET j == Min(starts)
           IN  <<<<j, EmailMatchEnd(t, j)>>>> \o EmailFindall(t, EmailMatchEnd(t, j))

\* [\d\s\-()]
IsPhoneChar(c) == IsDigit(c) \/ IsSpace(c) \/ c \in {"-", "(", ")"}

RECURSIVE PhoneRunEnd(_, _)
PhoneRunEnd(t, i) ==
  IF i <= Len(t) /\ IsPhoneChar(t[i]) THEN PhoneRunEnd(t, i + 1) ELSE i

\* the {8,} of the phone pattern
MinPhoneMiddle == 8

\* \+?\d[\d\s\-()]{8,}\d tried at position i: the position after the match, 0 if
\* none.  The greedy class run gives back characters down to its last digit.
PhoneMatchEnd(t, i) ==
  LET p == IF t[i] = "+" THEN i + 1 ELSE i
      r == PhoneRunEnd(t, p + 1)
      lasts == {q \in (p + 1 + MinPhoneMiddle)..(r - 1) : IsDigit(t[q])}
  IN  IF p <= Len(t) /\ IsDigit(t[p]) /\ lasts # {} THEN Max(lasts) + 1 ELSE 0

\* re.findall(r'\+?\d[\d\s\-()]{8,}\d', text), scanning from i: the spans (from,
\* to) of the matches in order
RECURSIVE PhoneFindall(_, _)
PhoneFindall(t, i) ==
  LET starts == {j \in i..Len(t) : PhoneMatchEnd(t, j) # 0}
  IN  IF starts = {} THEN <<>>
      ELSE LET j == Min(starts)
           IN  <<<<j, PhoneMatchEnd(t, j)>>>> \o PhoneFindall(t, PhoneMatchEnd(t, j))

\* the strings findall answers: the text of every match, in order
Matched(t, spans) == [k \in DOMAIN spans |-> Slice(t, spans[k][1], spans[k][2])]

\* a variant that drops repeated matches (list(dict.fromkeys(...)))
RECURSIVE Deduplicated(_)
Deduplicated(ss) ==
  IF ss = <<>> THEN <<>>
  ELSE LET front == Deduplicated(SubSeq(ss, 1, Len(ss) - 1))
           last == ss[Len(ss)]
       IN  IF \E k \in DOMAIN front : front[k] = last THEN front ELSE Append(front, last)
extract_contact_info_deduplicated(t) ==
  [email |-> Some(Deduplicated(Matched(t, EmailFindall(t, 1)))),
   phone |-> Some(Deduplicated(Matched(t, PhoneFindall(t, 1))))]

extract_contact_info(t) ==
  [email |-> Some(Matched(t, EmailFindall(t, 1))),
   phone |-> Some(Matched(t, PhoneFindall(t, 1)))]

(***************************************************************************)
(* extract_name.  word_tokenize, pos_tag and ne_chunk are NLTK's: what     *)
(* they answer for a line is not decided by this program, so every answer  *)
(* is possible: an exception (a missing resource), no PERSON chunk, or a   *)
(* PERSON chunk of consecutive words of the line.                          *)
(***************************************************************************)
\* for line in lines[:10]
NameLines == 10

\* lines = text.strip().splitlines(); lines[:10]
LinesScanned(t) ==
  LET lines == splitlines(strip(t))
  IN  SubSeq(lines, 1, IF Len(lines) < NameLines THEN Len(lines) ELSE NameLines)

\* the words of a line, split at whitespace
RECURSIVE WordsFrom(_, _)
WordsFrom(l, i) ==
  LET a == SpaceRunEnd(l, i)
  IN  IF a > Len(l) THEN <<>>
      ELSE <<Slice(l, a, NonSpaceRunEnd(l, a))>> \o WordsFrom(l, NonSpaceRunEnd(l, a))
Words(l) == WordsFrom(l, 1)

\* ' '.join([c[0] for c in chunk]) for every chunk NLTK may label PERSON in line l
PersonNames(l) ==
  LET w == Words(l)
  IN  {join(<<" ">>, SubSeq(w, a, b)) : <<a, b>> \in {x \in (1..Len(w)) \X (1..Len(w)) : x[1] <= x[2]}}

(***************************************************************************)
(* Inputs: a text is a concatenation of at most n pieces of a vocabulary.  *)
(***************************************************************************)
RECURSIVE Concat(_)
Concat(ss) == IF ss = <<>> THEN <<>> ELSE ss[1] \o Concat(Tail(ss))

Texts(pieces, n) == {Concat(s) : s \in UNION {[1..k -> pieces] : k \in 0..n}}

\* strings of at most n characters of an alphabet
Strings(alphabet, n) == UNION {[1..k -> alphabet] : k \in 0..n}

(***************************************************************************)
(* parse_resume and lambda_handler.  pc is the statement parse_resume is   *)
(* at; the resume text is what extract_text_from_pdf answers.              *)
(***************************************************************************)
Start(t) ==
  /\ text = t
  /\ pc = "extract_text_from_pdf"
  /\ name = Unset /\ contact_info = Unset /\ skills = Unset
  /\ experience = Unset /\ education = Unset /\ projects = Unset
  /\ certifications = Unset
  /\ nerCalls = 0
  /\ error = None
  /\ response = Unset
  /\ once = Unset /\ twice = Unset

\* text = extract_text_from_pdf(pdf_stream)
ExtractTextFromPdf ==
  /\ pc = "extract_text_from_pdf"
  /\ pc' = "extract_name"
  /\ UNCHANGED <<text, name, contact_info, skills, experience, education,
                 projects, certifications, nerCalls, error, response, once, twice>>

\* extract_text_to_fp or the decoding raises: extract_text_from_pdf re-raises,
\* and so does parse_resume
ExtractTextFromPdfRaises ==
  /\ pc = "extract_text_from_pdf"
  /\ error' = Some("extract_text_from_pdf")
  /\ pc' = "raised"
  /\ UNCHANGED <<text, name, contact_info, skills, experience, education,
                 projects, certifications, nerCalls, response, once, twice>>

\* a line of exactly two capitalized words: [A-Z][a-zA-Z]+ [A-Z][a-zA-Z]+
IsCapitalizedWord(w) ==
  Len(w) >= 2 /\ w[1] \in UpperSet /\ \A k \in 2..Len(w) : IsAlpha(w[k])
IsTwoCapitalizedWords(l) ==
  LET w == Words(l)
  IN  /\ Len(w) = 2
      /\ l = w[1] \o <<" ">> \o w[2]
      /\ IsCapitalizedWord(w[1]) /\ IsCapitalizedWord(w[2])
HeuristicLines(t) == {k \in DOMAIN LinesScanned(t) : IsTwoCapitalizedWords(LinesScanned(t)[k])}

\* a variant with a heuristic stage in front: the first scanned line of two
\* capitalized words is the name and NLTK is not called
ExtractNameHeuristicFirst ==
  /\ pc = "extract_name"
  /\ IF HeuristicLines(text) # {}
       THEN /\ name' = Some(LinesScanned(text)[Min(HeuristicLines(text))])
            /\ nerCalls' = 0
       ELSE \E k \in DOMAIN LinesScanned(text) :
              \E n \in PersonNames(LinesScanned(text)[k]) :
                /\ name' = Some(n)
                /\ nerCalls' = k
  /\ pc' = "extract_contact_info"
  /\ UNCHANGED <<text, contact_info, skills, experience, education,
                 projects, certifications, error, response, once, twice>>

\* name = extract_name(text): line k of the scanned lines holds the first PERSON chunk
ExtractNameFound ==
  /\ pc = "extract_name"
  /\ \E k \in DOMAIN LinesScanned(text) :
       \E n \in PersonNames(LinesScanned(text)[k]) :
         /\ name' = Some(n)
         /\ nerCalls' = k
  /\ pc' = "extract_contact_info"
  /\ UNCHANGED <<text, contact_info, skills, experience, education,
                 projects, certifications, error, response, once, twice>>

\* name = extract_name(text): no scanned line holds a PERSON chunk
ExtractNameNotFound ==
  /\ pc = "extract_name"
  /\ name' = None
  /\ nerCalls' = Len(LinesScanned(text))
  /\ pc' = "extract_contact_info"
  /\ UNCHANGED <<text, contact_info, skills, experience, education,
                 projects, certifications, error, response, once, twice>>

\* a variant whose except clause prints the error and answers None
ExtractNameSwallows ==
  /\ pc = "extract_name"
  /\ \E k \in DOMAIN LinesScanned(text) : nerCalls' = k
  /\ error' = Some("extract_name")
  /\ name' = None
  /\ pc' = "extract_contact_info"
  /\ UNCHANGED <<text, contact_info, skills, experience, education,
                 projects, certifications, response, once, twice>>

\* extract_name(text): NLTK raises on line k; extract_name prints and re-raises,
\* parse_resume prints and re-raises
ExtractNameRaises ==
  /\ pc = "extract_name"
  /\ \E k \in DOMAIN LinesScanned(text) : nerCalls' = k
  /\ error' = Some("extract_name")
  /\ pc' = "raised"
  /\ UNCHANGED <<text, name, contact_info, skills, experience, education,
                 projects, certifications, response, once, twice>>

ExtractContactInfo ==
  /\ pc = "extract_contact_info"
  /\ contact_info' = extract_contact_info(text)
  /\ pc' = "extract_skills"
  /\ UNCHANGED <<text, name, skills, experience, education,
                 projects, certifications, nerCalls, error, response, once, twice>>

ExtractSkills ==
  /\ pc = "extract_skills"
  /\ skills' = extract_skills(text)
  /\ pc' = "extract_experience"
  /\ UNCHANGED <<text, name, contact_info, experience, education,
                 projects, certifications, nerCalls, error, response, once, twice>>

ExtractExperience ==
  /\ pc = "extract_experience"
  /\ experience' = extract_experience(text)
  /\ pc' = "extract_education"
  /\ UNCHANGED <<text, name, contact_info, skills, education,
                 projects, certifications, nerCalls, error, response, once, twice>>

ExtractEducation ==
  /\ pc = "extract_education"
  /\ education' = extract_education(text)
  /\ pc' = "extract_projects"
  /\ UNCHANGED <<text, name, contact_info, skills, experience,
                 projects, certifications, nerCalls, error, response, once, twice>>

ExtractProjects ==
  /\ pc = "extract_projects"
  /\ projects' = extract_projects(text)
  /\ pc' = "extract_certifications"
  /\ UNCHANGED <<text, name, contact_info, skills, experience, education,
                 certifications, nerCalls, error, response, once, twice>>

\* a variant in which a text without a certifications section makes the
\* extractor raise (matches[0] taken without the emptiness test)
ExtractCertificationsRaisesWhenAbsent ==
  /\ pc = "extract_certifications"
  /\ IF CertificationsFirst(text) = None
       THEN /\ error' = Some("extract_certifications")
            /\ pc' = "raised"
            /\ UNCHANGED certifications
       ELSE /\ certifications' = extract_certifications(text)
            /\ pc' = "return"
            /\ UNCHANGED error
  /\ UNCHANGED <<text, name, contact_info, skills, experience, education,
                 projects, nerCalls, response, once, twice>>

ExtractCertifications ==
  /\ pc = "extract_certifications"
  /\ certifications' = extract_certifications(text)
  /\ pc' = "return"
  /\ UNCHANGED <<text, name, contact_info, skills, experience, education,
                 projects, nerCalls, error, response, once, twice>>

\* parse_resume returns the record; lambda_handler answers 200 with it
ReturnRecord ==
  /\ pc = "return"
  /\ response' = [statusCode |-> 200,
                  body |-> [name |-> name, contact_info |-> contact_info,
                            skills |-> skills, experience |-> experience,
                            education |-> education, projects |-> projects,
                            certifications |-> certifications]]
  /\ pc' = "done"
  /\ UNCHANGED <<text, name, contact_info, skills, experience, education,
                 projects, certifications, nerCalls, error, once, twice>>

\* parse_resume raised: lambda_handler's except answers 500 with the error (kept
\* here as the call that raised it)
ReturnError ==
  /\ pc = "raised"
  /\ response' = [statusCode |-> 500, body |-> [error |-> error.val]]
  /\ pc' = "done"
  /\ UNCHANGED <<text, name, contact_info, skills, experience, education,
                 projects, certifications, nerCalls, error, once, twice>>

Next ==
  \/ ExtractTextFromPdf
  \/ ExtractTextFromPdfRaises
  \/ ExtractNameFound
  \/ ExtractNameNotFound
  \/ ExtractNameRaises
  \/ ExtractContactInfo
  \/ ExtractSkills
  \/ ExtractExperience
  \/ ExtractEducation
  \/ ExtractProjects
  \/ ExtractCertifications
  \/ ReturnRecord
  \/ ReturnError

(***************************************************************************)
(* Resumes made of section headers and short bodies.                       *)
(***************************************************************************)
MaxPieces == 3

SectionPieces ==
  { <<"S", "K", "I", "L", "L", "S", "\n">>,
    <<"G", "o", ",", " ", "S", "Q", "L", "\n">>,
    <<"P", "R", "O", "J", "E", "C", "T", "S", "\n">>,
    <<"E", "X", "P", "E", "R", "I", "E", "N", "C", "E", "\n">>,
    <<"-", " ", "B", ".", "S", "c", " ", "M", "a", "t", "h", "e", "m", "a", "t", "i", "c", "s", "\n">>,
    <<"m", "y", " ", "c", "o", "u", "r", "s", "e", "s", "\n">> }

Init == \E t \in Texts(SectionPieces, MaxPieces) : Start(t)

Spec == Init /\ [][Next]_vars

(***************************************************************************)
(* remove_bullets on its own: called on a text, then on its own result.    *)
(***************************************************************************)
MaxBulletLen == 5

BulletAlphabet == {"-", "*", "U+2022", " ", "\n", "a"}

InitBullets ==
  /\ text \in Strings(BulletAlphabet, MaxBulletLen)
  /\ pc = "remove_bullets"
  /\ name = Unset /\ contact_info = Unset /\ skills = Unset
  /\ experience = Unset /\ education = Unset /\ projects = Unset
  /\ certifications = Unset
  /\ nerCalls = 0
  /\ error = None
  /\ response = Unset
  /\ once = Unset /\ twice = Unset

\* once = remove_bullets(text)
RemoveBulletsOnce ==
  /\ pc = "remove_bullets"
  /\ once' = Some(remove_bullets(text))
  /\ pc' = "remove_bullets_again"
  /\ UNCHANGED <<text, name, contact_info, skills, experience, education,
                 projects, certifications, nerCalls, error, response, twice>>

\* twice = remove_bullets(once)
RemoveBulletsTwice ==
  /\ pc = "remove_bullets_again"
  /\ twice' = Some(remove_bullets(once.val))
  /\ pc' = "done"
  /\ UNCHANGED <<text, name, contact_info, skills, experience, education,
                 projects, certifications, nerCalls, error, response, once>>

NextBullets == RemoveBulletsOnce \/ RemoveBulletsTwice

SpecBullets == InitBullets /\ [][NextBullets]_vars

\* s.split('\n')
RECURSIVE SplitAtNewline(_, _)
SplitAtNewline(t, i) ==
  LET breaks == {j \in i..Len(t) : t[j] = "\n"}
  IN  IF breaks = {} THEN <<Slice(t, i, Len(t) + 1)>>
      ELSE <<Slice(t, i, Min(breaks))>> \o SplitAtNewline(t, Min(breaks) + 1)

\* C3: remove_bullets is idempotent: applied to its own result it changes nothing.
RemoveBulletsIdempotent == twice # Unset => twice = once

\* C8: after remove_bullets no line that began with a bullet marker still begins
\* with that marker, whether or not whitespace follows the marker (lines are
\* compared where the call kept the number of lines).
BulletsStrippedFromEveryLine ==
  once # Unset =>
    LET before == SplitAtNewline(text, 1)
        after == SplitAtNewline(once.val, 1)
    IN  Len(before) = Len(after) =>
          \A k \in DOMAIN before :
            (before[k] # <<>> /\ IsBullet(before[k][1])) =>
              (after[k] = <<>> \/ after[k][1] # before[k][1])

(***************************************************************************)
(* Properties of parse_resume over the section resumes (Spec).             *)
(***************************************************************************)
\* the literal occurs somewhere in the text, letters compared case-insensitively
Contains(t, lit) == \E i \in 1..Len(t) : MatchLit(t, i, lit)
NoHeader(t, alts) == \A a \in DOMAIN alts : ~Contains(t, alts[a])

\* no degree keyword of the text is followed by a field-of-study keyword
NoDegreeFieldPair(t) ==
  \A i \in 1..Len(t) :
    AltEnd(t, i, Degrees) # 0 =>
      \A j \in AltEnd(t, i, Degrees)..Len(t) : AltEnd(t, j, Fields) = 0

EveryFieldSet(r) ==
  /\ r.name # Unset /\ r.contact_info # Unset /\ r.skills # Unset
  /\ r.experience # Unset /\ r.education # Unset /\ r.projects # Unset
  /\ r.certifications # Unset

AbsentSectionsAreNoneAndEducationEmpty ==
  (pc = "done" /\ error = None) =>
    /\ NoHeader(text, SkillsHeaders) => skills = None
    /\ NoHeader(text, ExperienceHeaders) => experience = None
    /\ NoHeader(text, ProjectsHeaders) => projects = None
    /\ NoHeader(text, CertificationsHeaders) => certifications = None
    /\ NoDegreeFieldPair(text) => education = Some(<<>>)

\* C2 witness: a non-empty text with no section at all went through every extractor.
NoSectionRecognized ==
  /\ pc = "done" /\ error = None /\ text # <<>>
  /\ NoHeader(text, SkillsHeaders) /\ NoHeader(text, ExperienceHeaders)
  /\ NoHeader(text, ProjectsHeaders) /\ NoHeader(text, CertificationsHeaders)
  /\ NoDegreeFieldPair(text)
  /\ skills = None /\ certifications = None /\ education = Some(<<>>)

\* C2 (as claimed): in the record every optional field, education included, is
\* None when the text holds nothing its extractor recognizes.
AbsentSectionsAreNone ==
  (pc = "done" /\ error = None) =>
    /\ NoHeader(text, SkillsHeaders) => skills = None
    /\ NoHeader(text, ExperienceHeaders) => experience = None
    /\ NoHeader(text, ProjectsHeaders) => projects = None
    /\ NoHeader(text, CertificationsHeaders) => certifications = None
    /\ NoDegreeFieldPair(text) => education = None

UppercaseLineAhead(t, j) ==
  /\ j <= Len(t) /\ t[j] = "\n"
  /\ \E k \in (j + 2)..Len(t) :
       /\ t[k] = "\n"
       /\ \A m \in (j + 1)..(k - 1) : t[m] \in UpperSet \cup {" "}
       /\ \E m \in (j + 1)..(k - 1) : t[m] \in UpperSet

\* C7: each body extract_experience captures runs up to the next line made
\* entirely of uppercase words, or to the end of the text; no other line ends it.
ExperienceEndsAtUppercaseLine ==
  experience # Unset =>
    \A k \in DOMAIN ExperienceFindall(text, 1) :
      LET m == ExperienceFindall(text, 1)[k]
      IN  m.content[2] =
            Min({q \in m.content[1]..(Len(text) + 1) :
                   UppercaseLineAhead(text, q) \/ AtEnd(text, q)})

(***************************************************************************)
(* extract_name over texts of up to sixteen lines (SpecName).              *)
(***************************************************************************)
MaxNamePieces == 4

NamePieces ==
  { <<"J", "o", " ", "S", "m", "\n">>,
    <<"x", "\n", "\n", "y", " ", "z", "\n", "x", "\n">> }

InitName == \E t \in Texts(NamePieces, MaxNamePieces) : Start(t)

SpecName == InitName /\ [][Next]_vars

AfterName(t) ==
  /\ text = t
  /\ pc = "extract_contact_info"
  /\ name = None
  /\ nerCalls = Len(LinesScanned(t))
  /\ contact_info = Unset /\ skills = Unset
  /\ experience = Unset /\ education = Unset /\ projects = Unset
  /\ certifications = Unset
  /\ error = None
  /\ response = Unset
  /\ once = Unset /\ twice = Unset

NextAfterName ==
  \/ ExtractContactInfo
  \/ ExtractSkills
  \/ ExtractExperience
  \/ ExtractEducation
  \/ ExtractProjects
  \/ ExtractCertifications
  \/ ReturnRecord

(***************************************************************************)
(* Skills and projects sections (SpecSegments).                            *)
(***************************************************************************)
MaxSegmentPieces == 4

SegmentPieces ==
  { <<"S", "K", "I", "L", "L", "S", "\n">>,
    <<"G", "o", ",", " ", "S", "Q", "L", "\n">>,
    <<"P", "R", "O", "J", "E", "C", "T", "S", "\n">>,
    <<"P", "R", "O", "J", "E", "C", "T">>,
    <<"T", "e", "c", "h", "n", "i", "c", "a", "l", " ">>,
    <<"E", "d", "u", "c", "a", "t", "i", "o", "n", "\n">> }

InitSegments == \E t \in Texts(SegmentPieces, MaxSegmentPieces) : AfterName(t)

SpecSegments == InitSegments /\ [][NextAfterName]_vars

Skills == <<"S", "K", "I", "L", "L", "S">>
Projects == <<"P", "R", "O", "J", "E", "C", "T", "S">>

\* the positions at which the word SKILLS, the word PROJECTS, any stop
\* alternative of the skills section occurs
SkillsWordAt(t) == {i \in 1..Len(t) : MatchLit(t, i, Skills)}
ProjectsWordAt(t) == {i \in 1..Len(t) : MatchLit(t, i, Projects)}
SkillsStopWordAt(t) ==
  {i \in 1..Len(t) : \E a \in DOMAIN SkillsStops : MatchLit(t, i, SkillsStops[a])}

\* a skills header is followed later by a PROJECTS header
SkillsThenProjects(t) ==
  /\ SkillsWordAt(t) # {}
  /\ \E p \in ProjectsWordAt(t) : p >= Min(SkillsWordAt(t)) + Len(Skills)

\* the first projects header of the text ends on the first letter of its first
\* SKILLS word, as in "PROJECTSKILLS"
ProjectsRunsIntoSkills(t) ==
  /\ ProjectsWordAt(t) # {} /\ SkillsWordAt(t) # {}
  /\ Min(ProjectsWordAt(t)) + Len(Projects) = Min(SkillsWordAt(t)) + 1

\* the skills body is the text between the end of the first SKILLS word and the
\* first stop alternative after it
SkillsBodyIsFirstSegment(t) ==
  LET h == Min(SkillsWordAt(t)) + Len(Skills)
  IN  SkillsSearch(t).val.body = <<h, Min({q \in SkillsStopWordAt(t) : q >= h})>>

\* the projects body starts after the projects header and shares no position
\* with the skills body
ProjectsBodyApart(t) ==
  LET s == SkillsSearch(t).val
      p == ProjectsSearch(t).val
  IN  /\ p.body[1] = p.header[2]
      /\ p.body[1] >= Min(ProjectsWordAt(t)) + Len(Projects)
      /\ p.body[2] <= s.body[1] \/ p.body[1] >= s.body[2]

SkillsGoSqlProjects ==
  <<"S", "K", "I", "L", "L", "S", "\n", "G", "o", ",", " ", "S", "Q", "L", "\n",
    "P", "R", "O", "J", "E", "C", "T", "S", "\n">>

\* C6 (as amended): when a skills header is followed later by a PROJECTS header,
\* the skills body is exactly the text between the first skills header and the
\* first following stop alternative (and the skills are split from it), and,
\* unless the first projects header runs into the first SKILLS word
\* ("PROJECTSKILLS"), the projects body starts after the projects header and
\* holds no part of the skills body.
SkillsAndProjectsSegmented ==
  (pc = "done" /\ SkillsThenProjects(text)) =>
    /\ SkillsBodyIsFirstSegment(text)
    /\ skills =
         Some(KeepSkills(SplitSkills(remove_bullets(
           Slice(text, SkillsSearch(text).val.body[1], SkillsSearch(text).val.body[2])), 1)))
    /\ text = SkillsGoSqlProjects =>
         skills = Some(<< <<"G", "o">>, <<"S", "Q", "L">> >>)
    /\ ~ProjectsRunsIntoSkills(text) => ProjectsBodyApart(text)

\* C6 witness: "SKILLS\nGo, SQL\nPROJECTS\n" was parsed.
SkillsGoSqlProjectsParsed ==
  /\ pc = "done" /\ text = SkillsGoSqlProjects
  /\ skills = Some(<< <<"G", "o">>, <<"S", "Q", "L">> >>)
  /\ projects = Some(<<>>)

\* C6 (as claimed): for every text in which a skills header is followed later
\* by a PROJECTS header the skills body is the first segment and the projects
\* body holds no part of it.
SkillsAndProjectsAlwaysApart ==
  (pc = "done" /\ SkillsThenProjects(text)) =>
    /\ SkillsBodyIsFirstSegment(text)
    /\ ProjectsBodyApart(text)

(***************************************************************************)
(* Degrees and fields of study (SpecEducation).                            *)
(***************************************************************************)
MaxEducationPieces == 4

EducationPieces ==
  { <<"B", ".", "S", "c", " ", "i", "n", " ">>,
    <<"C", "o", "m", "p", "u", "t", "e", "r", " ", "S", "c", "i", "e", "n", "c", "e", "\n">>,
    <<"M", ".", "E", "n", "g", ",", " ">>,
    <<"D", "a", "t", "a", " ", "S", "c", "i", "e", "n", "c", "e">>,
    <<"m", "a", "s", "t", "e", "r", " ", "o", "f", " ">> }

InitEducation == \E t \in Texts(EducationPieces, MaxEducationPieces) : AfterName(t)

SpecEducation == InitEducation /\ [][NextAfterName]_vars

\* s is one of the keywords, in any letter case
IsKeywordOf(s, alts) ==
  \E a \in DOMAIN alts : Len(s) = Len(alts[a]) /\ MatchLit(s, 1, alts[a])

\* the degree keywords at or after position i that a field keyword follows
DegreesWithField(t, i) ==
  {d \in i..Len(t) :
     /\ AltEnd(t, d, Degrees) # 0
     /\ \E f \in AltEnd(t, d, Degrees)..Len(t) : AltEnd(t, f, Fields) # 0}

BScThenMEng ==
  <<"B", ".", "S", "c", " ", "i", "n", " ",
    "C", "o", "m", "p", "u", "t", "e", "r", " ", "S", "c", "i", "e", "n", "c", "e", "\n",
    "M", ".", "E", "n", "g", ",", " ", "D", "a", "t", "a", " ", "S", "c", "i", "e", "n", "c", "e">>

BScThenMEngItems ==
  << <<"B", ".", "S", "c">>,
     <<"C", "o", "m", "p", "u", "t", "e", "r", " ", "S", "c", "i", "e", "n", "c", "e">>,
     <<"M", ".", "E", "n", "g">>,
     <<"D", "a", "t", "a", " ", "S", "c", "i", "e", "n", "c", "e">> >>

\* C9: extract_education answers a flat sequence of even length whose elements
\* 2k-1 and 2k (counted from 1) are the degree keyword and the field keyword of
\* the k-th (degree, field) match, the matches taken in order of appearance:
\* each degree is the first one after the previous match that a field follows,
\* each field the first one after its degree.
EducationIsFlatPairs ==
  education # Unset =>
    LET ed == education.val
        ms == EducationFindall(text, 1)
        from(k) == IF k = 1 THEN 1 ELSE ms[k - 1].field[2]
    IN  /\ education # None
        /\ Len(ed) = 2 * Len(ms)
        /\ \A k \in DOMAIN ms :
             /\ ed[2 * k - 1] = Slice(text, ms[k].degree[1], ms[k].degree[2])
             /\ ed[2 * k] = Slice(text, ms[k].field[1], ms[k].field[2])
             /\ IsKeywordOf(ed[2 * k - 1], Degrees)
             /\ IsKeywordOf(ed[2 * k], Fields)
             /\ ms[k].degree[1] = Min(DegreesWithField(text, from(k)))
             /\ ms[k].field[1] =
                  Min({f \in ms[k].degree[2]..Len(text) : AltEnd(text, f, Fields) # 0})
        /\ DegreesWithField(text, from(Len(ms) + 1)) = {}
        /\ text = BScThenMEng => ed = BScThenMEngItems

\* C9 witness: "B.Sc in Computer Science\nM.Eng, Data Science" was parsed.
BScThenMEngParsed ==
  pc = "done" /\ text = BScThenMEng /\ education = Some(BScThenMEngItems)

(***************************************************************************)
(* Emails and phone numbers (SpecContact).                                 *)
(***************************************************************************)
MaxContactPieces == 4

ContactPieces ==
  { <<"a", "@", "b", ".", "c", "o", ",", " ">>,
    <<"+", "1", " ", "5", "5", "5", "-", "1", "2", "3", "-", "4", "5", "6", "7", "\n">>,
    <<"x", "@", "y", " ">>,
    <<"1", "2", " ">> }

InitContact == \E t \in Texts(ContactPieces, MaxContactPieces) : AfterName(t)

SpecContact == InitContact /\ [][NextAfterName]_vars

\* list holds the text of every match of a pattern, End(i) being the position
\* after the pattern's match at i (0 if none), in left-to-right order: each
\* element is the first match that starts at or after the end of the previous one
ListsEveryMatch(list, spans, End(_)) ==
  LET starts == {i \in 1..Len(text) : End(i) # 0}
      from(k) == IF k = 1 THEN 1 ELSE spans[k - 1][2]
  IN  /\ Len(list) = Len(spans)
      /\ \A k \in DOMAIN spans :
           /\ spans[k][1] = Min({i \in starts : i >= from(k)})
           /\ spans[k][2] = End(spans[k][1])
           /\ list[k] = Slice(text, spans[k][1], spans[k][2])
      /\ {i \in starts : i >= from(Len(spans) + 1)} = {}
      /\ starts = {} => list = <<>>

\* C10: the contact info always holds an email sequence and a phone sequence,
\* never None: empty when nothing matches, and otherwise every match in
\* left-to-right order, repeated matches kept; the assembled record carries it.
ContactInfoListsEveryMatch ==
  contact_info # Unset =>
    /\ contact_info.email # None /\ contact_info.phone # None
    /\ LET EmailEnd(i) == EmailMatchEnd(text, i)
           PhoneEnd(i) == PhoneMatchEnd(text, i)
       IN  /\ ListsEveryMatch(contact_info.email.val, EmailFindall(text, 1), EmailEnd)
           /\ ListsEveryMatch(contact_info.phone.val, PhoneFindall(text, 1), PhoneEnd)
    /\ pc = "done" => response.body.contact_info = contact_info

\* C10 witness: the same email address was found twice, and a phone number.
RepeatedEmailKept ==
  /\ pc = "done"
  /\ Len(contact_info.email.val) >= 2
  /\ contact_info.email.val[1] = contact_info.email.val[2]
  /\ contact_info.phone.val # <<>>

====
